---- MODULE Spec2Model ----
(***************************************************************************)
(* A model of pol's safe (src/src/safe.py) and of the command handlers of  *)
(* its console application (src/src/main.py).                              *)
(*                                                                         *)
(*   Spec       the ElGamal safe: generate, store, load, rerandomize       *)
(*   SpecFormat the on-disk format: load of foreign data, block indices    *)
(*   SpecCli    the commands get / put / paste over a safe's containers    *)
(*   SpecMain   the entry point: every command, on any file, with faults   *)
(*   SpecInit   the command init                                           *)
(*   SpecShell  the interactive shell: commands run one after another      *)
(***************************************************************************)
EXTENDS Integers, Sequences, FiniteSets, TLC

VARIABLES
    obj,      \* the safe object in memory: its class, data and index struct
    stream,   \* the file the safe is stored to / loaded from
    pool,     \* the multiprocessing pool of a running rerandomize
    exc,      \* the last operation of the safe and the exception it raised
    rt,       \* the last block-index round trip that was attempted
    safe,     \* CLI: the containers of the safe file, in discovery order
    file,     \* CLI: what is at the path of the safe file
    res       \* CLI: what the last command read, returned and wrote

vars == <<obj, stream, pool, exc, rt, safe, file, res>>

-----------------------------------------------------------------------------
(* Bounds of the model.                                                    *)

MaxBlocks == 2
MaxThreads == 2
MaxContainers == 2
MaxEntries == 1
MaxArgs == 19

(* The group parameters generate_group_params / precomputed_group_params   *)
(* hand to ElGamalSafe.generate: p a safe prime, g a generator of the      *)
(* subgroup of order (p-1)/2.                                              *)
GP_p == 7
GP_g == 2

(* gmpy.mpz(raw, 256) / mpz.binary(): base-256 digits.                      *)
Base == 256

-----------------------------------------------------------------------------
(* Arithmetic: pow(b, e, m), and the byte strings of gmpy.                 *)

RECURSIVE pow(_, _, _)
pow(b, e, m) == IF e = 0 THEN 1 % m ELSE (b * pow(b, e - 1, m)) % m

(* mpz.binary(): little-endian base-256 digits, at least one, and a        *)
(* trailing zero byte when the top bit of the last digit is set.           *)
RECURSIVE digits(_)
digits(n) == IF n < Base THEN <<n>> ELSE <<n % Base>> \o digits(n \div Base)

binary(n) ==
    LET d == digits(n)
    IN  IF d[Len(d)] >= Base \div 2 THEN d \o <<0>> ELSE d

(* gmpy.mpz(s, 256): the number a little-endian byte string stands for.    *)
RECURSIVE mpz(_)
mpz(s) == IF s = <<>> THEN 0 ELSE s[1] + Base * mpz(Tail(s))

-----------------------------------------------------------------------------
(* Key-derivation constants, as byte strings.                              *)

KC_ELGAMAL ==
    <<213, 61, 55, 106, 125, 180, 152, 149, 109, 125, 127, 94, 87, 5, 9, 213>>
KC_LIST ==
    <<213, 61, 55, 106, 125, 180, 152, 149, 109, 125, 127, 94, 87, 5, 9, 213>>
KC_APPEND ==
    <<118, 0, 28, 52, 76, 189, 158, 115, 166, 181, 189, 72, 182, 114, 102, 217>>

(* The constant of a purpose, and what is hashed to derive the key of      *)
(* that purpose for the n-th block from the base key K:                    *)
(* Hash(K, KC_ELGAMAL, n).                                                 *)
KC(purpose) ==
    CASE purpose = "elgamal" -> KC_ELGAMAL
      [] purpose = "list" -> KC_LIST
      [] purpose = "append" -> KC_APPEND

key_hash_input(K, purpose, n) == <<K, KC(purpose), n>>

BaseKeys == {"K1", "K2"}

-----------------------------------------------------------------------------
(* What msgpack packs and unpacks.  A value is a record [k, n, s, l]: its  *)
(* kind ("absent" for a key the map does not have), and its number (kind   *)
(* "int"), its string (kinds "str" and "map": the name of a parameter set) *)
(* or its elements (kinds "list" and "bytes").                             *)

Absent == [k |-> "absent", n |-> 0, s |-> "", l |-> <<>>]
IntVal(n) == [k |-> "int", n |-> n, s |-> "", l |-> <<>>]
StrVal(s) == [k |-> "str", n |-> 0, s |-> s, l |-> <<>>]
MapVal(s) == [k |-> "map", n |-> 0, s |-> s, l |-> <<>>]
ListVal(l) == [k |-> "list", n |-> 0, s |-> "", l |-> l]
BytesVal(b) == [k |-> "bytes", n |-> 0, s |-> "", l |-> b]

(* isinstance(v, basestring), isinstance(v, int), isinstance(v, list).     *)
IsString(v) == v.k \in {"str", "bytes"}
IsInt(v) == v.k = "int"
IsList(v) == v.k = "list"

(* The top-level keys of a safe, and a key this version does not know.     *)
KnownFields ==
    <<"type", "n-blocks", "block-index-size", "group-params",
      "key-stretching", "hash", "blocks">>
ExtraFields == <<"x-future">>
AllFields == KnownFields \o ExtraFields
FieldSet == {AllFields[i] : i \in 1..Len(AllFields)}

(* The data of a safe: what the top-level value is ("map", or "int" or     *)
(* "list" for a file that holds something else) and the value of each key. *)
NoData == [top |-> "none", f |-> [a \in FieldSet |-> Absent]]
NoObj == [cls |-> "None", data |-> NoData, struct |-> "unset"]
NoStream == [top |-> "none", pairs |-> <<>>]

TYPE_MAP == {"elgamal"}

(* msgpack.pack: the (key, value) pairs of the keys the map has.           *)
RECURSIVE pack_pairs(_, _)
pack_pairs(f, names) ==
    IF names = <<>> THEN <<>>
    ELSE (IF f[Head(names)].k = "absent" THEN <<>>
          ELSE << <<Head(names), f[Head(names)]>> >>)
         \o pack_pairs(f, Tail(names))

pack_known_only(data) ==
    [top |-> data.top, pairs |-> pack_pairs(data.f, KnownFields)]

pack(data) == [top |-> data.top, pairs |-> pack_pairs(data.f, AllFields)]

(* msgpack.unpack: the map rebuilt from its pairs.                         *)
unpack(st) ==
    [top |-> st.top,
     f |-> [a \in FieldSet |->
              IF \E i \in 1..Len(st.pairs) : st.pairs[i][1] = a
              THEN st.pairs[CHOOSE i \in 1..Len(st.pairs) :
                                st.pairs[i][1] = a][2]
              ELSE Absent]]

-----------------------------------------------------------------------------
(* _eg_rerandomize_block: one block refreshed with the random s.           *)

_eg_rerandomize_block_same_base(g, p, raw_b, s) ==
    LET b0 == (mpz(raw_b[1]) * pow(g, s, p)) % p
        b1 == (mpz(raw_b[2]) * pow(g, s, p)) % p
    IN  <<binary(b0), binary(b1), raw_b[3]>>

_eg_rerandomize_block_all_three(g, p, raw_b, s) ==
    LET b0 == (mpz(raw_b[1]) * pow(g, s, p)) % p
        b1 == (mpz(raw_b[2]) * pow(mpz(raw_b[3]), s, p)) % p
        b2 == (mpz(raw_b[3]) * pow(g, s, p)) % p
    IN  <<binary(b0), binary(b1), binary(b2)>>

_eg_rerandomize_block(g, p, raw_b, s) ==
    LET b0 == (mpz(raw_b[1]) * pow(g, s, p)) % p
        b1 == (mpz(raw_b[2]) * pow(mpz(raw_b[3]), s, p)) % p
    IN  <<binary(b0), binary(b1), raw_b[3]>>

(* random.randint(a, b): both ends included.                               *)
randint(a, b) == a .. b

(* ElGamalSafe.group_params: the parameters parsed back from the data.     *)
group_params(data) ==
    [g |-> mpz(data.f["group-params"].l[1].l),
     p |-> mpz(data.f["group-params"].l[2].l)]

nblocks(data) == data.f["n-blocks"].n

-----------------------------------------------------------------------------
(* Safe.__init__ and ElGamalSafe.__init__: the exception the constructor   *)
(* raises on data ("none" when it returns), and the index struct it sets.  *)

Safe_init(data) ==
    IF data.f["key-stretching"].k = "absent" THEN "SafeFormatError"
    ELSE IF data.f["hash"].k = "absent" THEN "SafeFormatError"
    ELSE "none"

ElGamalSafe_init(data) ==
    LET f == data.f
    IN  IF Safe_init(data) # "none" THEN Safe_init(data)
        ELSE IF \E a \in {"group-params", "n-blocks", "blocks",
                          "block-index-size"} : f[a].k = "absent"
             THEN "SafeFormatError"
        ELSE IF ~IsList(f["blocks"]) \/ ~IsList(f["group-params"])
                \/ ~IsInt(f["block-index-size"]) \/ ~IsInt(f["n-blocks"])
             THEN "SafeFormatError"
        ELSE IF Len(f["blocks"].l) # f["n-blocks"].n THEN "SafeFormatError"
        ELSE IF Len(f["group-params"].l) # 2 THEN "SafeFormatError"
        ELSE IF \E i \in 1..2 : ~IsString(f["group-params"].l[i])
             THEN "SafeFormatError"
        ELSE "none"

block_index_struct(data) ==
    IF data.f["block-index-size"].n = 1 THEN "B"
    ELSE IF data.f["block-index-size"].n = 4 THEN "H"
    ELSE IF data.f["block-index-size"].n = 4 THEN "I"
    ELSE "unset"

(* Safe.load: the object and the exception that unpacking st gives.        *)
Safe_load(st) ==
    LET data == unpack(st)
        e == IF data.top = "int" THEN "TypeError"
             ELSE IF data.top = "list" THEN "SafeFormatError"
             ELSE IF data.f["type"].k = "absent"
                     \/ ~IsString(data.f["type"])
                     \/ data.f["type"].s \notin TYPE_MAP
                  THEN "SafeFormatError"
             ELSE ElGamalSafe_init(data)
    IN  [exc |-> e,
         obj |-> IF e = "none"
                 THEN [cls |-> "ElGamalSafe", data |-> data,
                       struct |-> block_index_struct(data)]
                 ELSE NoObj]

(* ElGamalSafe.generate: the data of a new safe, built by Safe(...).       *)
generate_data(n_blocks, block_index_size, gp, draws) ==
    [top |-> "map",
     f |-> [a \in FieldSet |->
        CASE a = "type" -> StrVal("elgamal")
          [] a = "n-blocks" -> IntVal(n_blocks)
          [] a = "block-index-size" -> IntVal(block_index_size)
          [] a = "group-params" ->
                ListVal(<<BytesVal(binary(gp.g)), BytesVal(binary(gp.p))>>)
          [] a = "key-stretching" -> MapVal("scrypt")
          [] a = "hash" -> MapVal("sha")
          [] a = "blocks" ->
                ListVal([i \in 1..n_blocks |->
                            <<binary(draws[i][1]), binary(draws[i][2]),
                              binary(draws[i][3])>>])
          [] OTHER -> Absent]]

-----------------------------------------------------------------------------
(* The safe: generate, store, load.                                        *)

(* A Python value the index methods handle: None, a byte string or a tuple *)
(* of numbers.                                                             *)
PyNone == [t |-> "None", v |-> <<>>]
PyBytes(b) == [t |-> "bytes", v |-> b]
PyTuple(x) == [t |-> "tuple", v |-> x]
PyInt(n) == [t |-> "int", v |-> <<n>>]

IdlePool == [active |-> FALSE, nthreads |-> 0, results |-> <<>>]

NoRt ==
    [tried |-> FALSE, size |-> 0, index |-> 0, e |-> "none", back |-> PyNone]


InitSafe ==
    /\ obj = NoObj
    /\ stream = NoStream
    /\ pool = IdlePool
    /\ exc = [op |-> "none", e |-> "none"]
    /\ rt = NoRt

(* Safe.generate(typ, ...): a new safe of n_blocks random blocks.          *)
Generate(typ, n_blocks, block_index_size, draws) ==
    /\ obj.cls = "None"
    /\ stream = NoStream
    /\ IF typ \notin TYPE_MAP
       THEN /\ exc' = [op |-> "generate", e |-> "ValueError"]
            /\ obj' = obj
       ELSE LET gp == [g |-> GP_g, p |-> GP_p]
                data == generate_data(n_blocks, block_index_size, gp, draws)
            IN  /\ exc' = [op |-> "generate", e |-> Safe_init(data)]
                /\ obj' = [cls |-> "Safe", data |-> data, struct |-> "unset"]
    /\ UNCHANGED <<stream, pool, rt, safe, file, res>>

(* Safe.store(stream): the data packed into the stream.                    *)
Store ==
    /\ obj.cls # "None"
    /\ ~pool.active
    /\ stream' = pack(obj.data)
    /\ exc' = [op |-> "store", e |-> "none"]
    /\ UNCHANGED <<obj, pool, rt, safe, file, res>>

(* Safe.load(stream): the stream is read to its end; the object it holds   *)
(* replaces the one in memory, or an exception is raised.                  *)
Load ==
    /\ stream.top # "none"
    /\ ~pool.active
    /\ LET r == Safe_load(stream)
       IN  /\ exc' = [op |-> "load", e |-> r.exc]
           /\ obj' = r.obj
    /\ stream' = NoStream
    /\ UNCHANGED <<pool, rt, safe, file, res>>

-----------------------------------------------------------------------------
(* ElGamalSafe.rerandomize: pool.map of _eg_rerandomize_block over the     *)
(* blocks.  The pool's workers take the tasks one at a time, in any order, *)
(* and map returns when every task has its result.                         *)

(* The result of task i is stored at index i of what map returns.          *)
pool_put(results, i, b) == [results EXCEPT ![i] = b]

rerandomize_assign_reversed(data, results) ==
    [data EXCEPT !.f["blocks"].l =
        [i \in 1..Len(results) |-> results[Len(results) + 1 - i]]]

(* self.data['blocks'] = pool.map(...)                                     *)
rerandomize_assign(data, results) ==
    [data EXCEPT !.f["blocks"].l = results]

RerandomizeCall(nthreads) ==
    /\ obj.cls # "None"
    /\ ~pool.active
    /\ IF obj.cls # "ElGamalSafe"
       THEN /\ exc' = [op |-> "rerandomize", e |-> "AttributeError"]
            /\ pool' = pool
       ELSE /\ exc' = [op |-> "rerandomize", e |-> "none"]
            /\ pool' = [active |-> TRUE, nthreads |-> nthreads,
                        results |-> [i \in 1..Len(obj.data.f["blocks"].l)
                                        |-> <<>>]]
    /\ UNCHANGED <<obj, stream, rt, safe, file, res>>

(* A worker of the pool runs task i: _eg_rerandomize_block draws s.         *)
Worker(w, i, s) ==
    /\ pool.active
    /\ w \in 1..pool.nthreads
    /\ i \in 1..Len(pool.results)
    /\ pool.results[i] = <<>>
    /\ LET gp == group_params(obj.data)
       IN  /\ s \in randint(2, gp.p)
           /\ pool' = [pool EXCEPT !.results =
                 pool_put(pool.results, i,
                     _eg_rerandomize_block(gp.g, gp.p,
                                           obj.data.f["blocks"].l[i], s))]
    /\ UNCHANGED <<obj, stream, exc, rt, safe, file, res>>

RerandomizeReturn ==
    /\ pool.active
    /\ \A i \in 1..Len(pool.results) : pool.results[i] # <<>>
    /\ obj' = [obj EXCEPT !.data = rerandomize_assign(obj.data, pool.results)]
    /\ pool' = IdlePool
    /\ UNCHANGED <<stream, exc, rt, safe, file, res>>

-----------------------------------------------------------------------------
(* Block indices: struct.Struct('>B' / '>H' / '>I').                       *)

StructSize(fmt) == CASE fmt = "B" -> 1 [] fmt = "H" -> 2 [] fmt = "I" -> 4

(* The big-endian digits of n, most significant first.                     *)
RECURSIVE be_digits(_)
be_digits(n) ==
    IF n < Base THEN <<n>> ELSE be_digits(n \div Base) \o <<n % Base>>

(* Struct.pack(n): size bytes, big-endian; struct.error if n needs more.   *)
struct_pack(fmt, n) ==
    LET d == be_digits(n)
        size == StructSize(fmt)
    IN  IF Len(d) > size THEN [e |-> "struct.error", bytes |-> <<>>]
        ELSE [e |-> "none",
              bytes |-> [i \in 1..size |->
                           IF i <= size - Len(d) THEN 0
                           ELSE d[i - (size - Len(d))]]]

RECURSIVE be_value(_)
be_value(b) ==
    IF b = <<>> THEN 0 ELSE b[Len(b)] + Base * be_value(SubSeq(b, 1, Len(b) - 1))

(* Struct.unpack(s): the tuple of the one number s holds.                  *)
struct_unpack(fmt, b) ==
    IF Len(b) # StructSize(fmt) THEN [e |-> "struct.error", tuple |-> <<>>]
    ELSE [e |-> "none", tuple |-> <<be_value(b)>>]

(* ElGamalSafe._index_to_bytes: packs, and returns nothing.                *)
_index_to_bytes(self, index) ==
    IF self.struct = "unset" THEN [e |-> "AttributeError", ret |-> PyNone]
    ELSE [e |-> struct_pack(self.struct, index).e, ret |-> PyNone]

(* ElGamalSafe._index_from_bytes: unpacks, and returns nothing.            *)
_index_from_bytes(self, s) ==
    IF self.struct = "unset" THEN [e |-> "AttributeError", ret |-> PyNone]
    ELSE IF s.t # "bytes" THEN [e |-> "TypeError", ret |-> PyNone]
    ELSE [e |-> struct_unpack(self.struct, s.v).e, ret |-> PyNone]

(* _index_from_bytes(_index_to_bytes(index)) on the loaded safe.           *)
IndexRoundTrip(index) ==
    /\ obj.cls = "ElGamalSafe"
    /\ ~pool.active
    /\ LET to == _index_to_bytes(obj, index)
           from == _index_from_bytes(obj, to.ret)
       IN  rt' = [tried |-> TRUE, index |-> index,
                  size |-> obj.data.f["block-index-size"].n,
                  e |-> IF to.e # "none" THEN to.e ELSE from.e,
                  back |-> IF to.e # "none" THEN PyNone ELSE from.ret]
    /\ UNCHANGED <<obj, stream, pool, exc, safe, file, res>>

-----------------------------------------------------------------------------
(* Files that did not come from Safe.store.                                *)

SampleSeq == <<<<GP_p, 2, 2>>, <<3, 5, 4>>, <<6, 3, 2>>>>

RawBlock(t) == <<binary(t[1]), binary(t[2]), binary(t[3])>>

ForeignBlocks(n) == [i \in 1..n |-> RawBlock(SampleSeq[((i - 1) % 3) + 1])]

ForeignFields ==
    [a \in FieldSet |->
      CASE a = "type" ->
             {Absent, IntVal(1), StrVal("elgamal"), StrVal("rsa")}
        [] a = "n-blocks" ->
             {Absent, StrVal("1")} \cup {IntVal(n) : n \in 1..MaxBlocks}
        [] a = "block-index-size" ->
             {Absent, StrVal("2")} \cup {IntVal(n) : n \in 1..4}
        [] a = "group-params" ->
             {Absent, IntVal(GP_p),
              ListVal(<<BytesVal(binary(GP_g))>>),
              ListVal(<<IntVal(GP_g), BytesVal(binary(GP_p))>>),
              ListVal(<<BytesVal(binary(GP_g)), BytesVal(binary(GP_p))>>)}
        [] a = "key-stretching" -> {Absent, MapVal("scrypt")}
        [] a = "hash" -> {Absent, MapVal("sha")}
        [] a = "blocks" ->
             {Absent, IntVal(0)}
             \cup {ListVal(ForeignBlocks(n)) : n \in 1..MaxBlocks}
        [] OTHER -> {Absent, IntVal(42)}]

ForeignData ==
    {[top |-> "int", f |-> NoData.f], [top |-> "list", f |-> NoData.f]}
    \cup {[top |-> "map",
           f |-> [a \in FieldSet |->
              CASE a = "type" -> ty
                [] a = "n-blocks" -> nb
                [] a = "block-index-size" -> bi
                [] a = "group-params" -> gp
                [] a = "key-stretching" -> ks
                [] a = "hash" -> ha
                [] a = "blocks" -> bl
                [] OTHER -> ex]] :
            ty \in ForeignFields["type"],
            nb \in ForeignFields["n-blocks"],
            bi \in ForeignFields["block-index-size"],
            gp \in ForeignFields["group-params"],
            ks \in ForeignFields["key-stretching"],
            ha \in ForeignFields["hash"],
            bl \in ForeignFields["blocks"],
            ex \in ForeignFields["x-future"]}

(* The bytes of a file that holds data, whoever wrote it.                  *)
file_of(data) == [top |-> data.top, pairs |-> pack_pairs(data.f, AllFields)]

(* Somebody else writes the file that will be loaded.                      *)
ForeignFile(data) ==
    /\ obj.cls = "None"
    /\ stream = NoStream
    /\ exc.op = "none"
    /\ stream' = file_of(data)
    /\ exc' = [op |-> "foreign", e |-> "none"]
    /\ UNCHANGED <<obj, pool, rt, safe, file, res>>

-----------------------------------------------------------------------------
(* The console application.  The safe file holds containers, in the order  *)
(* their anchor blocks are found; a container grants each password full,   *)
(* list-only or append-only access, or none.  An entry is the tuple        *)
(* <<key, note, secret>>.                                                  *)

Passwords == {"a", "b"}
Keys == {"k"}
QueryKeys == {"k", "x"}
TheNote == "n"

(* The containers `init` can leave behind: one master password each, and   *)
(* at most one more password, for list-only or for append-only access.     *)
AccessMaps ==
    {acc \in [Passwords -> {"none", "full", "list", "append"}] :
        Cardinality({q \in Passwords : acc[q] = "full"}) = 1}

EmptyContainer(acc) == [access |-> acc, main |-> <<>>, append |-> <<>>]

InitialSafes ==
    UNION {[1..n -> {EmptyContainer(acc) : acc \in AccessMaps}] :
             n \in 0..MaxContainers}

(* What a command leaves behind: its arguments, what it returned (<<>> for *)
(* None), what it printed on stdout and wrote on stderr, the calls it made *)
(* on the safe, the clipboard and the terminal, the exception that left    *)
(* the handler, the entries handed to on_move_append_entries, and for      *)
(* _store the containers whose add raised MissingKey and those save() was  *)
(* called on.                                                              *)
NoRes ==
    [cmd |-> "none", password |-> "", key |-> "", secret |-> "",
     ret |-> <<>>, out |-> <<>>, err |-> <<>>, calls |-> <<>>,
     raised |-> "none", fault |-> "none", moved |-> <<>>, stored |-> FALSE,
     failed |-> <<>>, saved |-> <<>>, args |-> <<>>, pws |-> <<>>,
     gp |-> <<>>]

(* The exit status of the process for what the entry point returned.       *)
ExitCode(ret) == IF ret = <<>> THEN 0 ELSE ret[1]

(* What a handler leaves: its result and the containers of the safe file.  *)
Result(r, s) == [res |-> r, safe |-> s]

Cmd(cmd, password, key) ==
    [NoRes EXCEPT !.cmd = cmd, !.password = password, !.key = key]

(* The password the user gives: on the command line or at the prompt of    *)
(* getpass, where Interrupt stands for the user pressing ^C instead.       *)
Interrupt == "^C"

(* What can be at the path of the safe: nothing, a safe, a safe another    *)
(* process holds the lock of, a file that is not a pol safe, and a file    *)
(* whose msgpack map has no `type'.                                        *)
FileStates == {"absent", "safe", "locked", "notpol", "malformed"}

FileStream(f) ==
    IF f = "malformed" THEN [top |-> "map", pairs |-> <<>>]
    ELSE file_of(generate_data(1, 2, [g |-> GP_g, p |-> GP_p],
                               <<<<3, 5, 4>>>>))

(* pol.safe.open on the path of the safe: the exception it raises.  A file *)
(* that is there, free and a pol safe is loaded by Safe.load.              *)
_open_safe(f) ==
    CASE f = "absent" -> "SafeNotFoundError"
      [] f \in {"locked", "held"} -> "SafeLocked"
      [] f = "notpol" -> "WrongMagicError"
      [] OTHER -> Safe_load(FileStream(f)).exc

(* `with self._open_safe() as safe:` followed by the call of               *)
(* safe.open_containers(password or getpass(...)).                         *)
with_open_safe(r, password) ==
    IF _open_safe(file) # "none"
    THEN [r EXCEPT !.calls = Append(@, "open_safe"),
                   !.raised = _open_safe(file)]
    ELSE IF password = Interrupt
    THEN [r EXCEPT !.calls = @ \o <<"open_safe", "getpass">>,
                   !.raised = "KeyboardInterrupt"]
    ELSE [r EXCEPT !.calls = @ \o <<"open_safe", "open_containers">>]

with_exit_never(r) == r

(* The end of `with self._open_safe() as safe:`.  Leaving the block, by    *)
(* its last statement, a return or an exception, calls __exit__ of the     *)
(* safe that _open_safe returned; when _open_safe raised, the block was    *)
(* never entered.                                                          *)
with_exit(r) ==
    IF _open_safe(file) # "none" THEN r
    ELSE [r EXCEPT !.calls = Append(@, "safe.__exit__")]

(* What a handler leaves when it leaves the with block with r.            *)
leave(r, s) == Result(with_exit(r), s)

(* A container as open_containers yields it for a password.  Opened with   *)
(* full access, its pending append entries are moved to its main data.     *)
open_container(c, i, password) ==
    LET cap == c.access[password]
    IN  [idx |-> i, cap |-> cap,
         main |-> IF cap = "full" THEN c.main \o c.append ELSE c.main,
         append |-> IF cap = "full" THEN <<>> ELSE c.append,
         moved |-> IF cap = "full" THEN c.append ELSE <<>>]

RECURSIVE open_containers(_, _, _)
open_containers(s, password, i) ==
    IF i > Len(s) THEN <<>>
    ELSE (IF s[i].access[password] = "none" THEN <<>>
          ELSE <<open_container(s[i], i, password)>>)
         \o open_containers(s, password, i + 1)

(* Container.get(key): the entries of the key, or MissingKey.              *)
IsKeyOf(key, e) == e[1] = key

container_get(c, key) ==
    IF c.cap # "full" THEN [e |-> "MissingKey", entries |-> <<>>]
    ELSE [e |-> "none",
          entries |-> SelectSeq(c.main, LAMBDA x : IsKeyOf(key, x))]

(* Container.add(key, note, secret).  With full access the entry goes to   *)
(* the main data; with the list- or the append-password (`put -p b` and    *)
(* `put -p c` of test_basic both succeed) it goes to the append data.      *)
container_add(c, key, note, secret) ==
    CASE c.cap = "full" ->
           [e |-> "none", c |-> [c EXCEPT !.main = Append(@, <<key, note, secret>>)]]
      [] c.cap \in {"list", "append"} ->
           [e |-> "none", c |-> [c EXCEPT !.append = Append(@, <<key, note, secret>>)]]
      [] OTHER -> [e |-> "MissingKey", c |-> c]

(* Container.save(): the container is written back to the safe.            *)
container_save(s, c) ==
    [s EXCEPT ![c.idx] = [@ EXCEPT !.main = c.main, !.append = c.append]]

on_move_unset(moved, c) == moved

(* _on_move_append_entries is called for a container that moved entries.   *)
on_move(moved, c) == IF c.moved = <<>> THEN moved ELSE Append(moved, c.moved)

(* The loop of cmd_get over the opened containers.                         *)
RECURSIVE get_loop(_, _, _)
get_loop(cs, key, st) ==
    IF cs = <<>> THEN st
    ELSE LET c == Head(cs)
             got == container_get(c, key)
             st1 == [st EXCEPT !.found_one = TRUE,
                               !.moved = on_move(@, c)]
         IN  IF got.e = "MissingKey" THEN get_loop(Tail(cs), key, st1)
             ELSE get_loop(Tail(cs), key,
                    [st1 EXCEPT !.entries =
                        @ \o SelectSeq(got.entries, LAMBDA x : Len(x) = 3)])

cmd_get_ret_at_least_one(st) ==
    IF ~st.found_one THEN <<-1>>
    ELSE IF st.entries = <<>> THEN <<-4>>
    ELSE IF Len(st.entries) >= 1 THEN <<-8>>
    ELSE <<>>

(* What cmd_get returns after the loop.                                    *)
cmd_get_ret(st) ==
    IF ~st.found_one THEN <<-1>>
    ELSE IF st.entries = <<>> THEN <<-4>>
    ELSE IF Len(st.entries) > 1 THEN <<-8>>
    ELSE <<>>

cmd_get(password, key) ==
    LET r == with_open_safe(Cmd("get", password, key), password)
        st == get_loop(open_containers(safe, password, 1), key,
                       [found_one |-> FALSE, entries |-> <<>>,
                        moved |-> <<>>])
        ret == cmd_get_ret(st)
    IN  IF r.raised # "none" THEN leave(r, safe)
        ELSE leave([r EXCEPT !.ret = ret, !.moved = st.moved,
                              !.out = IF ret = <<>> THEN <<st.entries[1][3]>>
                                      ELSE <<>>], safe)

store_loop_no_break(cs, key, note, pw, st) ==
    LET RECURSIVE go(_, _)
        go(rest, acc) ==
          IF rest = <<>> THEN acc
          ELSE LET c == Head(rest)
                   added == container_add(c, key, note, pw)
                   acc1 == [acc EXCEPT !.found_one = TRUE,
                                       !.moved = on_move(@, c)]
               IN  IF added.e = "MissingKey"
                   THEN go(Tail(rest), [acc1 EXCEPT !.failed = Append(@, c.idx)])
                   ELSE go(Tail(rest),
                           [acc1 EXCEPT !.safe = container_save(@, added.c),
                                        !.saved = Append(@, c.idx),
                                        !.stored = TRUE])
    IN  go(cs, st)

(* The loop of _store over the opened containers: it stops at the first    *)
(* container that takes the entry.                                         *)
store_loop(cs, key, note, pw, st) ==
    LET RECURSIVE go(_, _)
        go(rest, acc) ==
          IF rest = <<>> THEN acc
          ELSE LET c == Head(rest)
                   added == container_add(c, key, note, pw)
                   acc1 == [acc EXCEPT !.found_one = TRUE,
                                       !.moved = on_move(@, c)]
               IN  IF added.e = "MissingKey"
                   THEN go(Tail(rest), [acc1 EXCEPT !.failed = Append(@, c.idx)])
                   ELSE [acc1 EXCEPT !.safe = container_save(@, added.c),
                                     !.saved = Append(@, c.idx),
                                     !.stored = TRUE]
    IN  go(cs, st)

(* Program._store(pw), entered with the result r of its caller so far.     *)
_store(r0, password, key, pw) ==
    LET r == with_open_safe([r0 EXCEPT !.secret = pw, !.stored = TRUE],
                            password)
        st == store_loop(open_containers(safe, password, 1), key, TheNote, pw,
                         [safe |-> safe, found_one |-> FALSE,
                          stored |-> FALSE, failed |-> <<>>,
                          saved |-> <<>>, moved |-> <<>>])
    IN  IF r.raised # "none" THEN leave(r, safe)
        ELSE leave([r EXCEPT
                       !.ret = IF ~st.found_one THEN <<-1>>
                               ELSE IF st.found_one /\ ~st.stored THEN <<-2>>
                               ELSE <<>>,
                       !.moved = st.moved, !.failed = st.failed,
                       !.saved = st.saved], st.safe)

cmd_put_unchecked(password, key, secret, stdin) ==
    _store(Cmd("put", password, key), password, key,
           IF secret # "" THEN secret ELSE stdin)

(* cmd_put: the secret of the command line, or else what stdin holds.      *)
cmd_put(password, key, secret, stdin) ==
    LET r == Cmd("put", password, key)
        pw == IF secret # "" THEN secret ELSE stdin
    IN  IF pw = "" THEN Result([r EXCEPT !.ret = <<-3>>], safe)
        ELSE _store(r, password, key, pw)

(* cmd_paste: the secret is what the clipboard holds.  The call of         *)
(* pol.clipboard.clear() stands after the return of the result of _store.  *)
cmd_paste(password, key, available, clipboard) ==
    LET r == Cmd("paste", password, key)
    IN  IF ~available THEN Result([r EXCEPT !.ret = <<-7>>], safe)
        ELSE IF clipboard = ""
        THEN Result([r EXCEPT !.calls = <<"clipboard.paste">>,
                              !.ret = <<-3>>], safe)
        ELSE _store([r EXCEPT !.calls = <<"clipboard.paste">>],
                    password, key, clipboard)

(* Container.list(with_secrets): the (key, note) pairs of the main data,   *)
(* with the secrets for a reader with full access, or MissingKey.          *)
container_list(c, with_secrets) ==
    IF c.cap = "append" \/ (with_secrets /\ c.cap # "full")
    THEN [e |-> "MissingKey", entries |-> <<>>]
    ELSE [e |-> "none",
          entries |-> [j \in 1..Len(c.main) |->
                         IF with_secrets THEN c.main[j]
                         ELSE <<c.main[j][1], c.main[j][2]>>]]

(* Container.can_add.                                                      *)
can_add(c) == c.cap \in {"full", "list", "append"}

(* The loop of cmd_list: what it prints for the opened containers.         *)
RECURSIVE list_loop(_, _)
list_loop(cs, st) ==
    IF cs = <<>> THEN st
    ELSE LET c == Head(cs)
             got == container_list(c, FALSE)
             st1 == [st EXCEPT !.found_one = TRUE, !.moved = on_move(@, c)]
         IN  list_loop(Tail(cs),
               [st1 EXCEPT !.out = @ \o
                  (IF got.e = "MissingKey" THEN <<"(no list access)">>
                   ELSE IF got.entries = <<>> THEN <<"(empty)">>
                   ELSE [j \in 1..Len(got.entries) |-> got.entries[j][1]])])

(* cmd_list: it returns None on every path.                                *)
cmd_list(password) ==
    LET r == with_open_safe(Cmd("list", password, ""), password)
        st == list_loop(open_containers(safe, password, 1),
                        [found_one |-> FALSE, out |-> <<>>, moved |-> <<>>])
    IN  IF r.raised # "none" THEN leave(r, safe)
        ELSE leave([r EXCEPT !.ret = <<>>, !.moved = st.moved,
                       !.out = IF st.found_one THEN st.out
                               ELSE <<"No containers found">>], safe)

(* cmd_copy: every entry found is copied to the clipboard in turn.         *)
RECURSIVE copy_calls(_)
copy_calls(n) ==
    IF n = 0 THEN <<>>
    ELSE <<"clipboard.copy", "wait_for_keypress", "clipboard.clear">>
         \o copy_calls(n - 1)

cmd_copy(password, key, available) ==
    LET r0 == Cmd("copy", password, key)
        r == with_open_safe(r0, password)
        st == get_loop(open_containers(safe, password, 1), key,
                       [found_one |-> FALSE, entries |-> <<>>,
                        moved |-> <<>>])
    IN  IF ~available THEN Result([r0 EXCEPT !.ret = <<-7>>], safe)
        ELSE IF r.raised # "none" THEN leave(r, safe)
        ELSE IF ~st.found_one
        THEN leave([r EXCEPT !.ret = <<-1>>, !.moved = st.moved], safe)
        ELSE IF st.entries = <<>>
        THEN leave([r EXCEPT !.ret = <<-4>>, !.moved = st.moved], safe)
        ELSE leave([r EXCEPT !.ret = <<>>, !.moved = st.moved,
                       !.calls = @ \o copy_calls(Len(st.entries))], safe)

(* cmd_generate: a fresh password is stored as _store stores a secret and  *)
(* is then copied to the clipboard.                                        *)
cmd_generate(password, key, pw, available, no_copy) ==
    LET r == with_open_safe([Cmd("generate", password, key) EXCEPT
                               !.secret = pw, !.stored = TRUE,
                               !.calls = <<"generate_password">>], password)
        st == store_loop(open_containers(safe, password, 1), key, TheNote, pw,
                         [safe |-> safe, found_one |-> FALSE,
                          stored |-> FALSE, failed |-> <<>>,
                          saved |-> <<>>, moved |-> <<>>])
        r1 == [r EXCEPT !.moved = st.moved, !.failed = st.failed,
                        !.saved = st.saved]
    IN  IF r.raised # "none" THEN leave(r, safe)
        ELSE IF ~st.found_one THEN leave([r1 EXCEPT !.ret = <<-1>>], st.safe)
        ELSE IF st.found_one /\ ~st.stored
        THEN leave([r1 EXCEPT !.ret = <<-2>>], st.safe)
        ELSE IF ~available \/ no_copy THEN leave(r1, st.safe)
        ELSE leave([r1 EXCEPT !.calls = @ \o copy_calls(1)], st.safe)

(* The loop of the two import commands: the first opened container that    *)
(* can take entries.                                                       *)
RECURSIVE find_container(_, _)
find_container(cs, st) ==
    IF cs = <<>> THEN st
    ELSE LET c == Head(cs)
             st1 == [st EXCEPT !.found_one = TRUE, !.moved = on_move(@, c)]
         IN  IF can_add(c) THEN [st1 EXCEPT !.the_container = <<c>>]
             ELSE find_container(Tail(cs), st1)

(* An entry of the database that is imported: its title, notes, password  *)
(* and, in a KeePass database, the integer of its uuid.                    *)
Record(title, notes, password, uuid) == <<title, notes, password, uuid>>

RECURSIVE add_all(_, _)
add_all(c, records) ==
    IF records = <<>> THEN c
    ELSE add_all(container_add(c, Head(records)[1], Head(records)[2],
                               Head(records)[3]).c,
                 Tail(records))

(* cmd_import_keepass and cmd_import_psafe3: the database is loaded before *)
(* the safe is opened; keepass entries without a uuid are left out.        *)
cmd_import(cmd, password, loaded, records) ==
    LET r0 == [Cmd(cmd, password, "") EXCEPT !.calls = <<"load">>]
        r == with_open_safe(r0, password)
        st == find_container(open_containers(safe, password, 1),
                             [found_one |-> FALSE, the_container |-> <<>>,
                              moved |-> <<>>])
        taken == IF cmd = "import-keepass"
                 THEN SelectSeq(records, LAMBDA x : x[4] # 0)
                 ELSE records
    IN  IF ~loaded THEN Result([r0 EXCEPT !.raised = "IOError"], safe)
        ELSE IF r.raised # "none" THEN leave(r, safe)
        ELSE IF ~st.found_one
        THEN leave([r EXCEPT !.ret = <<-1>>, !.moved = st.moved], safe)
        ELSE IF st.the_container = <<>>
        THEN leave([r EXCEPT !.ret = <<-2>>, !.moved = st.moved], safe)
        ELSE LET c == add_all(st.the_container[1], taken)
             IN  leave([r EXCEPT !.ret = <<>>, !.moved = st.moved,
                           !.stored = TRUE, !.saved = <<c.idx>>,
                           !.out = <<"entries imported">>],
                        container_save(safe, c))

(* The loop of cmd_export: the rows written for the opened containers, or  *)
(* the MissingKey that list(with_secrets=True) lets through.               *)
RECURSIVE export_loop(_, _)
export_loop(cs, st) ==
    IF cs = <<>> THEN st
    ELSE LET c == Head(cs)
             got == container_list(c, TRUE)
             st1 == [st EXCEPT !.found_one = TRUE, !.moved = on_move(@, c)]
         IN  IF got.e # "none" THEN [st1 EXCEPT !.raised = got.e]
             ELSE export_loop(Tail(cs), [st1 EXCEPT !.rows = @ \o got.entries])

cmd_export(password, output, exists, force) ==
    LET r0 == Cmd("export", password, "")
        r1 == IF output = "-" THEN r0
              ELSE [r0 EXCEPT !.calls = <<"open(output)">>]
        r == with_open_safe(r1, password)
        st == export_loop(open_containers(safe, password, 1),
                          [found_one |-> FALSE, rows |-> <<>>,
                           raised |-> "none", moved |-> <<>>])
    IN  IF output # "-" /\ exists /\ ~force
        THEN Result([r0 EXCEPT !.ret = <<-11>>], safe)
        ELSE IF r.raised # "none" THEN leave(r, safe)
        ELSE IF st.raised # "none"
        THEN leave([r EXCEPT !.raised = st.raised, !.moved = st.moved], safe)
        ELSE IF ~st.found_one
        THEN leave([r EXCEPT !.ret = <<-1>>, !.moved = st.moved], safe)
        ELSE leave([r EXCEPT !.ret = <<>>, !.moved = st.moved,
                       !.out = st.rows], safe)

(* cmd_touch: the safe is opened and touched.                              *)
cmd_touch ==
    LET r == Cmd("touch", "", "")
    IN  IF _open_safe(file) # "none"
        THEN Result([r EXCEPT !.calls = <<"open_safe">>,
                              !.raised = _open_safe(file)], safe)
        ELSE leave([r EXCEPT !.calls = <<"open_safe", "touch">>], safe)

(* The lock of the safe file after the calls of a command: pol.safe.open   *)
(* takes it when it returns a safe, and __exit__ of that safe gives it     *)
(* back.  "held" is the lock in the hands of this process.                 *)
RECURSIVE lock_after(_, _)
lock_after(f, calls) ==
    IF calls = <<>> THEN f
    ELSE lock_after(
           CASE Head(calls) = "open_safe" /\ _open_safe(f) = "none" -> "held"
             [] Head(calls) = "safe.__exit__" /\ f = "held" -> "safe"
             [] OTHER -> f,
           Tail(calls))

(* Program._run_command: the handler is run and the exceptions it lets     *)
(* through are turned into exit statuses.                                  *)
_run_command(r) ==
    CASE r.raised = "none" -> r
      [] r.raised = "SafeNotFoundError" ->
           [r EXCEPT !.ret = <<-5>>, !.err = Append(@, "no such file")]
      [] r.raised = "SafeLocked" ->
           [r EXCEPT !.ret = <<-6>>, !.err = Append(@, "locked")]
      [] r.raised = "WrongMagicError" ->
           [r EXCEPT !.ret = <<-13>>, !.err = Append(@, "not a pol safe")]
      [] r.raised = "KeyboardInterrupt" ->
           [r EXCEPT !.ret = <<-14>>, !.err = Append(@, "^C")]
      [] OTHER ->
           [r EXCEPT !.ret = <<-12>>,
                     !.err = @ \o <<"traceback", "issue tracker">>]

(* A command run by _run_command, as the shell runs it.  The number of     *)
(* entries of a container is bounded by MaxEntries.                        *)
Run(result) ==
    /\ \A i \in 1..Len(result.safe) :
         Len(result.safe[i].main) + Len(result.safe[i].append) <= MaxEntries
    /\ res' = _run_command(result.res)
    /\ safe' = result.safe
    /\ file' = lock_after(file, result.res.calls)
    /\ UNCHANGED <<obj, stream, pool, exc, rt>>

CmdGet(password, key) == Run(cmd_get(password, key))

CmdPut(password, key, secret, stdin) ==
    Run(cmd_put(password, key, secret, stdin))

CmdPaste(password, key, available, clipboard) ==
    Run(cmd_paste(password, key, available, clipboard))

(* cmd_init.  None, which replaces an empty password, is a string no       *)
(* password is equal to.                                                   *)
NoPassword == "<None>"

or_None(pw) == IF pw = "" THEN NoPassword ELSE pw

(* The next password: cmdline_pws.pop() if cmdline_pws else '', and in the *)
(* same way what the user types at a prompt of zxcvbn_getpass.             *)
pop(answers) == IF answers = <<>> THEN "" ELSE Head(answers)

rest(answers) == IF answers = <<>> THEN <<>> ELSE Tail(answers)

collect_pws_seven(answers) ==
    LET RECURSIVE go(_, _, _, _)
        go(i, left, first, pws) ==
          IF i >= 8 THEN pws
          ELSE LET masterpw == pop(left)
                   listpw == pop(rest(left))
                   appendpw == pop(rest(rest(left)))
               IN  IF ~first /\ masterpw = "" THEN pws
                   ELSE go(i + 1, rest(rest(rest(left))), FALSE,
                           Append(pws, <<or_None(masterpw), or_None(listpw),
                                         or_None(appendpw)>>))
    IN  go(1, answers, TRUE, <<>>)

(* The loop `for i in xrange(1, 7)' of cmd_init: the (master, list,        *)
(* append) triples it collects.                                            *)
collect_pws(answers) ==
    LET RECURSIVE go(_, _, _, _)
        go(i, left, first, pws) ==
          IF i >= 7 THEN pws
          ELSE LET masterpw == pop(left)
                   listpw == pop(rest(left))
                   appendpw == pop(rest(rest(left)))
               IN  IF ~first /\ masterpw = "" THEN pws
                   ELSE go(i + 1, rest(rest(rest(left))), FALSE,
                           Append(pws, <<or_None(masterpw), or_None(listpw),
                                         or_None(appendpw)>>))
    IN  go(1, answers, TRUE, <<>>)

(* The prompts of an interactive init: three for every triple, and the one *)
(* for the master-password at which the loop was left.                     *)
prompts(answers) ==
    LET n == Len(collect_pws(answers))
    IN  IF n < 6 THEN 3 * n + 1 ELSE 3 * n

(* Safe.new_container(master, list, append): the new, empty container.     *)
new_container(mlapw) ==
    EmptyContainer([q \in Passwords |->
        IF q = mlapw[1] THEN "full"
        ELSE IF q = mlapw[2] THEN "list"
        ELSE IF q = mlapw[3] THEN "append"
        ELSE "none"])

(* pol.safe.create: SafeAlreadyExistsError if the path exists and override *)
(* is false; the group parameters are generated after that.                *)
create(exists, override) ==
    IF exists /\ ~override THEN "SafeAlreadyExistsError" ELSE "none"

init_calls_trash_first(pws, precomputed_gp) ==
    <<"create">>
    \o (IF precomputed_gp THEN <<>> ELSE <<"generate group parameters">>)
    \o <<"trash_freespace">>
    \o [j \in 1..Len(pws) |-> "new_container"]

(* The calls of the `with pol.safe.create(...) as safe:' block.            *)
init_calls(pws, precomputed_gp) ==
    <<"create">>
    \o (IF precomputed_gp THEN <<>> ELSE <<"generate group parameters">>)
    \o [j \in 1..Len(pws) |-> "new_container"]
    \o <<"trash_freespace">>

(* The arguments of init: --passwords, --force, --rerand-bits,             *)
(* --precomputed-group-parameters and --i-know-its-unsafe.                 *)
args_passwords(args) == args[1]

args_force(args) == args[2]

args_rerand_bits(args) == args[3]

args_precomputed_gp(args) == args[4]

args_i_know_its_unsafe(args) == args[5]

init_override_always(args) == TRUE

(* override=self.args_force(args) in the call of pol.safe.create.                *)
init_override(args) == args_force(args)

init_checks_bits_only(exists, args) ==
    IF exists /\ ~args_force(args) THEN <<-10>>
    ELSE IF args_rerand_bits(args) < 1025 /\ ~args_i_know_its_unsafe(args) THEN <<-9>>
    ELSE <<>>

(* The checks cmd_init starts with: what they make it return.              *)
init_checks(exists, args) ==
    IF exists /\ ~args_force(args) THEN <<-10>>
    ELSE IF args_rerand_bits(args) < 1025 /\ ~args_i_know_its_unsafe(args) THEN <<-9>>
    ELSE IF args_precomputed_gp(args) /\ ~args_i_know_its_unsafe(args) THEN <<-9>>
    ELSE <<>>

(* cmd_init with the arguments args, the answers typed at the prompts when *)
(* no password is on the command line, and raced: another process creates  *)
(* the file after cmd_init has looked for it.  The result keeps the        *)
(* arguments, whether the path existed when cmd_init looked, and raced.    *)
cmd_init(args, typed, raced) ==
    LET exists == file # "absent"
        r == [NoRes EXCEPT !.cmd = "init", !.args = <<args, exists, raced>>]
        interactive == args_passwords(args) = <<>>
        answers == IF interactive THEN typed ELSE args_passwords(args)
        pws == collect_pws(answers)
        asked == IF interactive
                 THEN [j \in 1..prompts(answers) |-> "getpass"] ELSE <<>>
        e == create(exists \/ raced, init_override(args))
    IN  IF init_checks(exists, args) # <<>>
        THEN [res |-> [r EXCEPT !.ret = init_checks(exists, args)],
              safe |-> safe, file |-> file]
        ELSE IF e # "none"
        THEN [res |-> [r EXCEPT !.ret = <<-10>>, !.pws = pws,
                                !.calls = asked \o <<"create">>],
              safe |-> safe, file |-> IF raced THEN "safe" ELSE file]
        ELSE [res |-> [r EXCEPT !.ret = <<>>, !.pws = pws,
                         !.gp = <<args_rerand_bits(args), args_precomputed_gp(args)>>,
                         !.calls = asked \o init_calls(pws, args_precomputed_gp(args))],
              safe |-> [j \in 1..Len(pws) |-> new_container(pws[j])],
              file |-> "safe"]

CmdInit(args, typed, raced) ==
    /\ res' = _run_command(cmd_init(args, typed, raced).res)
    /\ safe' = cmd_init(args, typed, raced).safe
    /\ file' = cmd_init(args, typed, raced).file
    /\ UNCHANGED <<obj, stream, pool, exc, rt>>

(* Program.main: arguments are parsed, logging and profiling are set up,   *)
(* the command is run by _run_command and its result returned.  An         *)
(* exception raised outside _run_command at the place `fault` is handed to *)
(* _handle_uncaught_exception, after which main falls off its end.         *)
SetupFaults == {"parse_args", "logging", "import yappi"}

main(fault, result) ==
    LET uncaught(r) == [r EXCEPT !.fault = fault, !.ret = <<>>,
                                 !.err = @ \o <<"traceback", "issue tracker">>]
    IN  IF fault \in SetupFaults
        THEN Result(uncaught([NoRes EXCEPT !.cmd = "main"]), safe)
        ELSE IF fault = "yappi.stop"
        THEN Result(uncaught(_run_command(result.res)), result.safe)
        ELSE Result(_run_command(result.res), result.safe)

Main(fault, result) ==
    /\ \A i \in 1..Len(result.safe) :
         Len(result.safe[i].main) + Len(result.safe[i].append) <= MaxEntries
    /\ res' = main(fault, result).res
    /\ safe' = main(fault, result).safe
    /\ UNCHANGED <<obj, stream, pool, exc, rt, file>>

-----------------------------------------------------------------------------
InitCliIdle ==
    /\ safe = <<>>
    /\ file = "absent"
    /\ res = NoRes

Init == InitSafe /\ InitCliIdle

(* What ElGamalSafe.generate draws for its blocks: every triple of         *)
(* randint(2, p) for a safe of one block, and the triples of SampleBlocks  *)
(* for a larger one.                                                       *)
SampleBlocks == {<<3, 5, 4>>, <<6, 3, 2>>, <<GP_p, 2, 2>>}

Draws(n) ==
    IF n = 1
    THEN [1..1 -> randint(2, GP_p) \X randint(2, GP_p) \X randint(2, GP_p)]
    ELSE [1..n -> SampleBlocks]

GenerateAny ==
    /\ obj.cls = "None"
    /\ stream = NoStream
    /\ \E typ \in {"elgamal", "rsa"}, n \in 1..MaxBlocks :
         \E d \in Draws(n) : Generate(typ, n, 2, d)

WorkerAny ==
    /\ pool.active
    /\ \E w \in 1..pool.nthreads, i \in 1..Len(pool.results) :
         \E s \in randint(2, group_params(obj.data).p) : Worker(w, i, s)

Next ==
    \/ GenerateAny
    \/ (obj.cls = "Safe" /\ Store)
    \/ Load
    \/ \E n \in 1..MaxThreads : RerandomizeCall(n)
    \/ WorkerAny
    \/ RerandomizeReturn

(* Spec: a safe is generated, stored and loaded once, and then             *)
(* rerandomized any number of times.                                       *)
Spec == Init /\ [][Next]_vars

-----------------------------------------------------------------------------
(* SpecFormat: files of any content are loaded; a loaded safe is           *)
(* rerandomized and stored again, and its block indices are encoded.  A    *)
(* stream that was written is loaded before the next rerandomize.          *)

ForeignFileAny ==
    /\ exc.op = "none"
    /\ \E data \in ForeignData : ForeignFile(data)

GenerateOne ==
    /\ obj.cls = "None"
    /\ stream = NoStream
    /\ \E typ \in {"elgamal", "rsa"}, n \in 1..MaxBlocks, bis \in 1..4 :
         Generate(typ, n, bis, [i \in 1..n |-> SampleSeq[((i - 1) % 3) + 1]])

IndexRoundTripAny ==
    /\ obj.cls = "ElGamalSafe"
    /\ \E index \in 0..(nblocks(obj.data) - 1) : IndexRoundTrip(index)

NextFormat ==
    \/ ForeignFileAny
    \/ GenerateOne
    \/ Store
    \/ Load
    \/ (stream = NoStream /\ \E n \in 1..MaxThreads : RerandomizeCall(n))
    \/ WorkerAny
    \/ RerandomizeReturn
    \/ IndexRoundTripAny

SpecFormat == Init /\ [][NextFormat]_vars

-----------------------------------------------------------------------------
(* SpecCli: get, put and paste are run, in any order and with any          *)
(* arguments, on a safe file that `init` has created.                      *)

InitCli ==
    /\ InitSafe
    /\ safe \in InitialSafes
    /\ file = "safe"
    /\ res = NoRes

NextCli ==
    \/ \E password \in Passwords, key \in QueryKeys : CmdGet(password, key)
    \/ \E password \in Passwords, key \in Keys :
         \E secret \in {"", "s"}, stdin \in {"", "s"} :
            CmdPut(password, key, secret, stdin)
    \/ \E password \in Passwords, key \in Keys :
         \E available \in BOOLEAN, clipboard \in {"", "c"} :
            CmdPaste(password, key, available, clipboard)

SpecCli == InitCli /\ [][NextCli]_vars

-----------------------------------------------------------------------------
(* Decryption of a block under the private key x: m = c2 * c1^(-x) mod p,  *)
(* which is not defined when c1 has no inverse modulo p.                   *)

inverse(a, p) == CHOOSE y \in 1..(p - 1) : (a * y) % p = 1

decrypt(block, x, p) ==
    LET c1 == mpz(block[1]) % p
        c2 == mpz(block[2]) % p
    IN  IF c1 = 0 THEN [defined |-> FALSE, m |-> 0]
        ELSE [defined |-> TRUE, m |-> (c2 * pow(inverse(c1, p), x, p)) % p]

(* x is a private key of the block: h = g^x mod p.                         *)
IsKey(x, block, gp) == pow(gp.g, x, gp.p) = mpz(block[3])

Blocks(o) == o.data.f["blocks"].l

SameDecryption(new, old, gp) ==
    \A x \in 0..(gp.p - 1) :
        IsKey(x, old, gp) => decrypt(new, x, gp.p) = decrypt(old, x, gp.p)

-----------------------------------------------------------------------------
(* C1: rerandomization preserves decryption.  Whenever a worker returns    *)
(* the rerandomization of block i, and whenever a step leaves a loaded     *)
(* safe loaded, every block decrypts under each of its private keys x      *)
(* (h = g^x mod p) to what it decrypted to before the step; so it does     *)
(* after any number of rerandomize calls.                                  *)
C1_DecryptionPreserved ==
    [][(obj.cls = "ElGamalSafe" /\ obj'.cls = "ElGamalSafe") =>
        LET gp == group_params(obj.data)
        IN  /\ Len(Blocks(obj')) = Len(Blocks(obj))
            /\ \A i \in 1..Len(Blocks(obj)) :
                 SameDecryption(Blocks(obj')[i], Blocks(obj)[i], gp)
            /\ pool'.active =>
                 \A i \in 1..Len(pool'.results) :
                    pool'.results[i] # <<>> =>
                      SameDecryption(pool'.results[i], Blocks(obj)[i], gp)]_vars

(* A rerandomize call has returned on a safe with a block that has a       *)
(* private key and whose c1, now 1, is not one generate draws.             *)
C1_Witness ==
    /\ obj.cls = "ElGamalSafe"
    /\ ~pool.active
    /\ exc.op = "rerandomize"
    /\ \E i \in 1..Len(Blocks(obj)) :
         /\ mpz(Blocks(obj)[i][1]) = 1
         /\ \E x \in 0..(GP_p - 1) :
              /\ IsKey(x, Blocks(obj)[i], group_params(obj.data))
              /\ decrypt(Blocks(obj)[i], x, GP_p).defined

(* C2: in every state of a safe, each of c1, c2, h of every block lies in  *)
(* [2, p).                                                                 *)
C2_BlocksInRange ==
    obj.cls # "None" =>
        \A i \in 1..Len(Blocks(obj)) : \A j \in 1..3 :
            /\ 2 <= mpz(Blocks(obj)[i][j])
            /\ mpz(Blocks(obj)[i][j]) < group_params(obj.data).p

(* C3: when rerandomize returns, the safe has n-blocks blocks, as many as  *)
(* before, and the block at each index i is a rerandomization of the block *)
(* that was at index i, whatever the number of workers.                    *)
C3_EveryBlockInPlace ==
    [][(pool.active /\ ~pool'.active) =>
        LET gp == group_params(obj.data)
        IN  /\ Len(Blocks(obj')) = nblocks(obj'.data)
            /\ Len(Blocks(obj')) = Len(Blocks(obj))
            /\ \A i \in 1..Len(Blocks(obj)) :
                 \E s \in randint(2, gp.p) :
                    Blocks(obj')[i] =
                      _eg_rerandomize_block(gp.g, gp.p, Blocks(obj)[i], s)]_vars

(* rerandomize has returned on a safe of two different blocks: the first   *)
(* has h = 2 and c1 = 0, the second h = 4.                                 *)
C3_Witness ==
    /\ obj.cls = "ElGamalSafe"
    /\ ~pool.active
    /\ exc.op = "rerandomize"
    /\ Len(Blocks(obj)) = 2
    /\ mpz(Blocks(obj)[1][1]) = 0
    /\ mpz(Blocks(obj)[1][3]) = 2
    /\ mpz(Blocks(obj)[2][3]) = 4

(* C4: no step of a rerandomize call changes h of any block (neither in    *)
(* the results of the workers nor in the safe) or any top-level field      *)
(* other than blocks.                                                      *)
C4_OnlyCiphertextChanges ==
    [][(pool.active \/ pool'.active) =>
        /\ obj'.cls = obj.cls
        /\ obj'.data.top = obj.data.top
        /\ \A a \in FieldSet \ {"blocks"} : obj'.data.f[a] = obj.data.f[a]
        /\ obj'.data.f["blocks"].k = obj.data.f["blocks"].k
        /\ Len(Blocks(obj')) = Len(Blocks(obj))
        /\ \A i \in 1..Len(Blocks(obj)) : Blocks(obj')[i][3] = Blocks(obj)[i][3]
        /\ pool'.active =>
             \A i \in 1..Len(pool'.results) :
                pool'.results[i] # <<>> =>
                   pool'.results[i][3] = Blocks(obj)[i][3]]_vars

(* rerandomize has returned on a safe that has an unknown top-level field, *)
(* and has changed c1 of its first block.                                  *)
C4_Witness ==
    /\ obj.cls = "ElGamalSafe"
    /\ ~pool.active
    /\ exc.op = "rerandomize"
    /\ obj.data.f["x-future"].k # "absent"
    /\ mpz(Blocks(obj)[1][1]) = 0

(* C5: KC_ELGAMAL, KC_LIST and KC_APPEND are pairwise distinct 16-byte     *)
(* values, so that for every base key K and every block index n of a safe  *)
(* the hash that derives the ElGamal key and the hash that derives the     *)
(* list key are given different inputs.                                    *)
C5_TagsSeparateDomains ==
    obj.cls # "None" =>
        /\ \A c \in {"elgamal", "list", "append"} : Len(KC(c)) = 16
        /\ \A c, d \in {"elgamal", "list", "append"} : c # d => KC(c) # KC(d)
        /\ \A K \in BaseKeys : \A n \in 0..(nblocks(obj.data) - 1) :
              key_hash_input(K, "elgamal", n) # key_hash_input(K, "list", n)

(* C6: a loaded safe with block-index-size 1, 2 or 4 has the struct of     *)
(* that many bytes, and _index_from_bytes(_index_to_bytes(i)) gives i back *)
(* for each of its block indices i.                                        *)
C6_IndexRoundTrips ==
    /\ (obj.cls = "ElGamalSafe"
          /\ obj.data.f["block-index-size"].n \in {1, 2, 4}) =>
         /\ obj.struct # "unset"
         /\ StructSize(obj.struct) = obj.data.f["block-index-size"].n
    /\ (rt.tried /\ rt.size \in {1, 2, 4}) =>
         /\ rt.e = "none"
         /\ rt.back = PyInt(rt.index)

(* C7: Safe.load either raises SafeFormatError, or returns a safe of the   *)
(* registered type whose data passes every check of the constructors.      *)
C7_LoadTwoOutcomes ==
    exc.op = "load" =>
        \/ exc.e = "SafeFormatError" /\ obj.cls = "None"
        \/ /\ exc.e = "none"
           /\ obj.cls = "ElGamalSafe"
           /\ obj.data.f["type"].s \in TYPE_MAP
           /\ ElGamalSafe_init(obj.data) = "none"

(* C8: loading what store has just written succeeds and gives a safe whose *)
(* data is the data that was stored, unknown top-level fields included;    *)
(* and no step of a rerandomize call changes an unknown field.             *)
C8_StoreLoadRoundTrip ==
    [][/\ (exc.op = "store" /\ exc'.op = "load") =>
            /\ exc'.e = "none"
            /\ obj'.data = obj.data
       /\ (pool.active \/ pool'.active) =>
            \A i \in 1..Len(ExtraFields) :
                obj'.data.f[ExtraFields[i]] = obj.data.f[ExtraFields[i]]]_vars

(* A safe with an unknown field was loaded, rerandomized (c1 of its first  *)
(* block is 0, which no file that is written holds), stored and loaded.    *)
C8_Witness ==
    /\ exc.op = "load"
    /\ exc.e = "none"
    /\ obj.data.f["x-future"].k # "absent"
    /\ mpz(Blocks(obj)[1][1]) = 0

-----------------------------------------------------------------------------
(* SpecInit: `init' is run, again and again, with any arguments.           *)

(* Password lists of every length up to MaxArgs, without an empty password *)
(* or with one among the first seven.                                      *)
AnswerLists ==
    {[j \in 1..n |-> IF j = k THEN "" ELSE IF j % 2 = 1 THEN "a" ELSE "b"] :
        n \in 0..MaxArgs, k \in {0, 1, 2, 4, 7}}

InitArgs(passwords, force, rerand_bits, precomputed_gp, i_know_its_unsafe) ==
    <<passwords, force, rerand_bits, precomputed_gp, i_know_its_unsafe>>

InitFlags ==
    \E force \in BOOLEAN, rerand_bits \in {1024, 1025} :
        \E precomputed_gp \in BOOLEAN, i_know_its_unsafe \in BOOLEAN :
            CmdInit(InitArgs(<<"a", "b">>, force, rerand_bits,
                             precomputed_gp, i_know_its_unsafe),
                    <<>>, FALSE)

InitCommandLine ==
    \E passwords \in AnswerLists \ {<<>>}, unsafe \in BOOLEAN :
        CmdInit(InitArgs(passwords, TRUE, IF unsafe THEN 1024 ELSE 1025,
                         unsafe, unsafe), <<>>, FALSE)

InitInteractive ==
    \E typed \in AnswerLists :
        CmdInit(InitArgs(<<>>, TRUE, 1025, FALSE, FALSE), typed, FALSE)

InitRaced ==
    \E passwords \in {<<>>, <<"a", "b", "", "b">>}, force \in BOOLEAN :
        CmdInit(InitArgs(passwords, force, 1025, FALSE, FALSE),
                <<"a", "", "", "b">>, TRUE)

InitInit ==
    /\ InitSafe
    /\ file \in FileStates
    /\ safe = <<>>
    /\ res = NoRes

NextInit ==
    \/ InitFlags
    \/ InitCommandLine
    \/ InitInteractive
    \/ InitRaced

SpecInit == InitInit /\ [][NextInit]_vars

-----------------------------------------------------------------------------
(* SpecMain: the entry point is run with any command line, on any file.    *)

PasswordInputs == Passwords \cup {Interrupt}

Records ==
    {<<>>, <<Record("k", TheNote, "s", 1)>>, <<Record("k", TheNote, "s", 0)>>}

(* The safes the entry point is run on: every container of a safe was      *)
(* created with the same passwords.                                        *)
MainSafes ==
    {s \in InitialSafes : \A i, j \in 1..Len(s) : s[i].access = s[j].access}

InitMain ==
    /\ InitSafe
    /\ file \in FileStates
    /\ safe \in (IF file = "safe" THEN MainSafes ELSE {<<>>})
    /\ res = NoRes

MainSetup == \E fault \in SetupFaults : Main(fault, Result(NoRes, safe))

(* A run with --profile in which yappi.stop() raises after the command.    *)
MainProfile ==
    \E password \in PasswordInputs, key \in QueryKeys :
        Main("yappi.stop", cmd_get(password, key))

MainGet ==
    \E password \in PasswordInputs, key \in QueryKeys :
        Main("none", cmd_get(password, key))

MainPut ==
    \E password \in PasswordInputs, key \in Keys, secret \in {"", "s"} :
        Main("none", cmd_put(password, key, secret, ""))

MainPaste ==
    \E password \in PasswordInputs, key \in Keys :
        \E available \in BOOLEAN, clipboard \in {"", "c"} :
            Main("none", cmd_paste(password, key, available, clipboard))

MainList == \E password \in PasswordInputs : Main("none", cmd_list(password))

MainCopy ==
    \E password \in PasswordInputs, key \in QueryKeys, available \in BOOLEAN :
        Main("none", cmd_copy(password, key, available))

MainGenerate ==
    \E password \in PasswordInputs, key \in Keys :
        \E available \in BOOLEAN, no_copy \in BOOLEAN :
            Main("none", cmd_generate(password, key, "s", available, no_copy))

MainImport ==
    \E password \in PasswordInputs, loaded \in BOOLEAN :
        \E cmd \in {"import-keepass", "import-psafe3"} :
            \E records \in (IF loaded THEN Records ELSE {<<>>}) :
                Main("none", cmd_import(cmd, password, loaded, records))

MainExport ==
    \E password \in PasswordInputs, output \in {"-", "out.csv"} :
        \E exists \in (IF output = "-" THEN {FALSE} ELSE BOOLEAN) :
            \E force \in (IF exists THEN BOOLEAN ELSE {FALSE}) :
                Main("none", cmd_export(password, output, exists, force))

NextMain ==
    \/ MainSetup
    \/ MainProfile
    \/ MainGet
    \/ MainPut
    \/ MainPaste
    \/ MainList
    \/ MainCopy
    \/ MainGenerate
    \/ MainImport
    \/ MainExport

SpecMain == InitMain /\ [][NextMain]_vars

-----------------------------------------------------------------------------
(* SpecShell: cmd_shell reads lines until the end of its input and runs    *)
(* the command of each line with _run_command, in the same process.        *)

(* One turn of the loop of cmd_shell on a line that runs no command: the   *)
(* end of the input, ^C at the prompt, an empty line, a line parse_args    *)
(* exits on, and the command shell itself.                                 *)
shell_turn(line) ==
    [NoRes EXCEPT !.cmd = "shell", !.args = <<line>>,
                  !.err = IF line = "^C" THEN <<"Use C-d to quit.">>
                          ELSE <<>>]

(* cmd_shell has left its loop.                                            *)
ShellEnded == res.cmd = "shell" /\ res.args = <<"EOF">>

InitShell ==
    /\ InitSafe
    /\ file \in FileStates
    /\ safe \in (IF file = "safe" THEN MainSafes ELSE {<<>>})
    /\ res = [NoRes EXCEPT !.cmd = "shell",
                           !.out = IF file = "absent"
                                   THEN <<"No safe found.">> ELSE <<>>]

ShellLine ==
    /\ ~ShellEnded
    /\ \E line \in {"EOF", "^C", "", "bad line", "shell"} :
         res' = shell_turn(line)
    /\ UNCHANGED <<obj, stream, pool, exc, rt, safe, file>>

(* self._run_command() on the command of the line that was read.           *)
ShellRun(result) == ~ShellEnded /\ Run(result)

NextShell ==
    \/ ShellLine
    \/ ShellRun(cmd_touch)
    \/ \E password \in PasswordInputs, key \in QueryKeys :
         ShellRun(cmd_get(password, key))
    \/ \E password \in PasswordInputs, key \in Keys, secret \in {"", "s"} :
         ShellRun(cmd_put(password, key, secret, ""))
    \/ \E password \in PasswordInputs, key \in Keys :
         \E available \in BOOLEAN, clipboard \in {"", "c"} :
            ShellRun(cmd_paste(password, key, available, clipboard))
    \/ \E password \in PasswordInputs : ShellRun(cmd_list(password))
    \/ \E password \in PasswordInputs, key \in QueryKeys :
         \E available \in BOOLEAN :
            ShellRun(cmd_copy(password, key, available))
    \/ \E password \in PasswordInputs, key \in Keys :
         \E available \in BOOLEAN, no_copy \in BOOLEAN :
            ShellRun(cmd_generate(password, key, "s", available, no_copy))
    \/ \E password \in PasswordInputs, loaded \in BOOLEAN :
         \E cmd \in {"import-keepass", "import-psafe3"} :
            \E records \in (IF loaded THEN Records ELSE {<<>>}) :
                ShellRun(cmd_import(cmd, password, loaded, records))
    \/ \E password \in PasswordInputs, output \in {"-", "out.csv"} :
         \E exists \in (IF output = "-" THEN {FALSE} ELSE BOOLEAN) :
            \E force \in (IF exists THEN BOOLEAN ELSE {FALSE}) :
                ShellRun(cmd_export(password, output, exists, force))

SpecShell == InitShell /\ [][NextShell]_vars

-----------------------------------------------------------------------------
(* The containers of the safe file s a password opens, and the entries of  *)
(* a key a reader with full access finds in container i.                   *)
Opened(s, password) == {i \in 1..Len(s) : s[i].access[password] # "none"}

Found(s, password, key) ==
    {<<i, part, j>> \in (1..Len(s)) \X {"main", "append"} \X (1..MaxEntries + 1) :
        /\ s[i].access[password] = "full"
        /\ j <= Len(s[i][part])
        /\ s[i][part][j][1] = key}

(* C9: get exits with -1 when the password opens no container, with -4    *)
(* when no opened container yields an entry with a secret for the key      *)
(* (containers that raise MissingKey are skipped), with -8 when more than  *)
(* one such entry is found, and otherwise prints the secret of the one     *)
(* entry and exits with 0.                                                 *)
C9_GetExitCodes ==
    res.cmd = "get" =>
      LET opened == Opened(safe, res.password)
          found == Found(safe, res.password, res.key)
      IN  /\ (ExitCode(res.ret) = -1) <=> (opened = {})
          /\ (ExitCode(res.ret) = -4) <=> (opened # {} /\ found = {})
          /\ (ExitCode(res.ret) = -8) <=> (opened # {} /\ Cardinality(found) > 1)
          /\ (ExitCode(res.ret) = 0) <=> (opened # {} /\ Cardinality(found) = 1)
          /\ ExitCode(res.ret) \in {-1, -4, -8, 0}
          /\ ExitCode(res.ret) = 0 =>
               \E f \in found : res.out = <<safe[f[1]][f[2]][f[3]][3]>>
          /\ ExitCode(res.ret) # 0 => res.out = <<>>

(* get printed the one secret of the key although the password also opened *)
(* a container that raised MissingKey.                                     *)
C9_Witness ==
    /\ res.cmd = "get"
    /\ res.ret = <<>>
    /\ res.out # <<>>
    /\ \E i \in Opened(safe, res.password) :
         safe[i].access[res.password] # "full"

-----------------------------------------------------------------------------
(* C11: every command that opens containers with a single password (list,  *)
(* get, copy, put, paste, generate, export, import-keepass, import-psafe3) *)
(* returns -1 when the password opens no container of the safe.            *)
SinglePasswordCommands ==
    {"list", "get", "copy", "put", "paste", "generate", "export",
     "import-keepass", "import-psafe3"}

Called(r, call) == \E i \in 1..Len(r.calls) : r.calls[i] = call

C11_NoContainerExitCode ==
    (/\ res.cmd \in SinglePasswordCommands
     /\ res.fault = "none"
     /\ Called(res, "open_containers")
     /\ Opened(safe, res.password) = {})
    => ExitCode(res.ret) = -1

(* C12: every exception that nothing in the CLI layer handles, whether it  *)
(* is raised while the arguments are parsed, while logging and profiling   *)
(* are set up or inside a command, has the traceback and the issue-tracker *)
(* URL written and makes the entry point return -12, never None or 0.      *)
HandledByName ==
    {"SafeNotFoundError", "SafeLocked", "WrongMagicError", "KeyboardInterrupt"}

Unhandled(r) ==
    \/ r.fault # "none"
    \/ r.raised \notin HandledByName \cup {"none"}

C12_UnhandledReturns12 ==
    Unhandled(res) =>
        /\ \E i \in 1..Len(res.err) : res.err[i] = "traceback"
        /\ \E i \in 1..Len(res.err) : res.err[i] = "issue tracker"
        /\ ExitCode(res.ret) = -12

(* C13: the core errors raised while a command runs are turned into fixed  *)
(* exit codes: SafeNotFound -5, SafeLocked -6, WrongMagic and SafeFormat   *)
(* both -13, a user interrupt -14, and no other code.                      *)
C13_CoreErrorCodes ==
    res.fault = "none" =>
        /\ res.raised = "SafeNotFoundError" => ExitCode(res.ret) = -5
        /\ res.raised = "SafeLocked" => ExitCode(res.ret) = -6
        /\ res.raised \in {"WrongMagicError", "SafeFormatError"}
              => ExitCode(res.ret) = -13
        /\ res.raised = "KeyboardInterrupt" => ExitCode(res.ret) = -14

-----------------------------------------------------------------------------
(* The number of calls of one kind a command made.                         *)
Calls(r, call) == Cardinality({i \in 1..Len(r.calls) : r.calls[i] = call})

CreationCalls == {"generate group parameters", "new_container", "trash_freespace"}

(* C14: init on an existing safe path without --force returns -10 and      *)
(* performs no creation step: no group parameters are generated, no        *)
(* container is allocated, trash_freespace is not called and the existing  *)
(* file is not replaced.                                                   *)
C14_InitExistingRefused ==
    [][ (/\ res'.cmd = "init"
         /\ ~args_force(res'.args[1])
         /\ (res'.args[2] \/ res'.args[3]))
        => /\ res'.ret = <<-10>>
           /\ \A call \in CreationCalls : Calls(res', call) = 0
           /\ safe' = safe
           /\ (file # "absent" => file' = file)
           /\ file' # "absent"
    ]_vars

(* init without --force found the file another process had just created:   *)
(* pol.safe.create refused.                                                *)
C14_Witness ==
    /\ res.cmd = "init"
    /\ ~args_force(res.args[1])
    /\ res.args[3]
    /\ res.ret = <<-10>>
    /\ Calls(res, "create") = 1

UnsafeParameters(args) ==
    /\ ~args_i_know_its_unsafe(args)
    /\ (args_rerand_bits(args) < 1025 \/ args_precomputed_gp(args))

(* C15 as claimed: with rerand-bits < 1025 or precomputed group parameters *)
(* and without --i-know-its-unsafe, init returns -9 before any password is *)
(* read and before the safe is created.                                    *)
C15_UnsafeReturns9 ==
    (res.cmd = "init" /\ UnsafeParameters(res.args[1]))
    => /\ res.ret = <<-9>>
       /\ res.calls = <<>>
       /\ res.pws = <<>>

(* C15 as amended: in that case init returns -9, or -10 when the path      *)
(* exists and --force is absent, before any password is read and before    *)
(* the safe is created; without the flag a safe is only ever created with  *)
(* freshly generated parameters of at least 1025 bits.                     *)
C15_UnsafeRejected ==
    [][ res'.cmd = "init" =>
          /\ UnsafeParameters(res'.args[1]) =>
               /\ res'.ret = IF res'.args[2] /\ ~args_force(res'.args[1])
                             THEN <<-10>> ELSE <<-9>>
               /\ res'.calls = <<>>
               /\ res'.pws = <<>>
               /\ safe' = safe /\ file' = file
          /\ (~args_i_know_its_unsafe(res'.args[1]) /\ Calls(res', "trash_freespace") > 0)
               => /\ res'.gp[1] >= 1025
                  /\ ~res'.gp[2]
                  /\ Calls(res', "generate group parameters") = 1
    ]_vars

(* init was asked for precomputed group parameters of 1025 bits without    *)
(* the flag, on a path that is free, and returned -9.                      *)
C15_Witness ==
    /\ res.cmd = "init"
    /\ args_precomputed_gp(res.args[1])
    /\ args_rerand_bits(res.args[1]) = 1025
    /\ ~args_i_know_its_unsafe(res.args[1])
    /\ ~res.args[2]
    /\ res.ret = <<-9>>

(* C16: init creates at most six containers: whatever passwords are on the *)
(* command line or typed, new_container is called at most six times, once  *)
(* for every collected (master, list, append) triple.                      *)
C16_AtMostSixContainers ==
    res.cmd = "init" =>
        /\ Calls(res, "new_container") <= 6
        /\ Len(res.pws) <= 6
        /\ res.ret = <<>> =>
             /\ Calls(res, "new_container") = Len(res.pws)
             /\ Len(safe) = Len(res.pws)

(* init was given more than eighteen passwords and made six containers.    *)
C16_Witness ==
    /\ res.cmd = "init"
    /\ Len(args_passwords(res.args[1])) > 18
    /\ res.ret = <<>>
    /\ Calls(res, "new_container") = 6
    /\ Len(safe) = 6

(* C20: in init trash_freespace is called exactly once, after              *)
(* new_container has been called for every collected triple, and no        *)
(* container is allocated after it; when the safe cannot be created        *)
(* (SafeAlreadyExists) neither new_container nor trash_freespace runs.     *)
C20_TrashAfterContainers ==
    res.cmd = "init" =>
        IF res.ret = <<>>
        THEN /\ Calls(res, "trash_freespace") = 1
             /\ Calls(res, "new_container") = Len(res.pws)
             /\ \A i, j \in 1..Len(res.calls) :
                  (res.calls[i] = "new_container"
                     /\ res.calls[j] = "trash_freespace") => i < j
        ELSE /\ Calls(res, "new_container") = 0
             /\ Calls(res, "trash_freespace") = 0

(* init allocated three containers and then trashed the free space.        *)
C20_Witness ==
    /\ res.cmd = "init"
    /\ res.ret = <<>>
    /\ Len(res.pws) = 3
    /\ res.calls[Len(res.calls)] = "trash_freespace"
    /\ Calls(res, "new_container") = 3

-----------------------------------------------------------------------------
(* C17: empty input is rejected before the safe is touched: put with no    *)
(* secret on the command line and empty stdin, and paste with an empty     *)
(* clipboard, return -3 without opening (locking) the safe, adding an      *)
(* entry or rerandomizing.                                                 *)
C17_EmptyInputRejected ==
    [][ (/\ res'.secret = ""
         /\ \/ res'.cmd = "put"
            \/ res'.cmd = "paste" /\ Called(res', "clipboard.paste"))
        => /\ res'.ret = <<-3>>
           /\ ~Called(res', "open_safe")
           /\ ~Called(res', "open_containers")
           /\ res'.saved = <<>>
           /\ safe' = safe
    ]_vars

(* put was given no secret and returned -3 on a safe that has a container  *)
(* its password opens.                                                     *)
C17_Witness ==
    /\ res.cmd = "put"
    /\ res.secret = ""
    /\ res.ret = <<-3>>
    /\ Opened(safe, res.password) # {}

(* The pending append entries of the containers of s that the password     *)
(* opens with full access, in the order of the containers.                 *)
RECURSIVE Pending(_, _, _)
Pending(s, password, i) ==
    IF i > Len(s) THEN <<>>
    ELSE (IF s[i].access[password] = "full" /\ s[i].append # <<>>
          THEN <<s[i].append>> ELSE <<>>)
         \o Pending(s, password, i + 1)

(* C18: an entry added through an append-only password and saved is seen   *)
(* by the next open with full access: get with the master password finds   *)
(* it, and on_move_append_entries is called exactly once, with that entry; *)
(* once a container opened with full access has been saved, a further full *)
(* open does not call it again.                                            *)
C18_AppendedEntryMoves ==
    [][ (res'.fault = "none" /\ res'.raised = "none") =>
          /\ res'.cmd = "get" =>
               /\ res'.moved = Pending(safe, res'.password, 1)
               /\ (\E i \in 1..Len(safe) :
                     /\ safe[i].access[res'.password] = "full"
                     /\ \E j \in 1..Len(safe[i].append) :
                          safe[i].append[j][1] = res'.key)
                  => res'.ret \in {<<>>, <<-8>>}
          /\ \A i \in 1..Len(safe) :
               (res'.saved = <<i>> /\ safe[i].access[res'.password] = "full")
               => /\ safe'[i].append = <<>>
                  /\ Len(safe'[i].main) >= Len(safe[i].main) + Len(safe[i].append)
                  /\ SubSeq(safe'[i].main, 1, Len(safe[i].main) + Len(safe[i].append))
                       = safe[i].main \o safe[i].append
                  /\ Pending(safe', res'.password, 1)
                       = Pending([safe EXCEPT ![i].append = <<>>], res'.password, 1)
    ]_vars

(* get with the master password printed the secret of an entry that had    *)
(* been added with another password, and the entry was reported as moved.  *)
C18_Witness ==
    /\ res.cmd = "get"
    /\ res.ret = <<>>
    /\ res.moved # <<>>
    /\ res.out = <<res.moved[1][1][3]>>
    /\ \E i \in 1..Len(safe) :
         /\ safe[i].access[res.password] = "full"
         /\ safe[i].append = res.moved[1]
         /\ safe[i].main = <<>>

(* C19: paste clears the clipboard: whenever cmd_paste has read the        *)
(* clipboard and handed its content to _store, pol.clipboard.clear() is    *)
(* executed before the command returns.                                    *)
C19_PasteClearsClipboard ==
    (res.cmd = "paste" /\ res.stored /\ res.raised = "none")
    => Called(res, "clipboard.clear")

(* C22: every ElGamalSafe the constructor has returned has a               *)
(* block-index-size of 1, 2 or 4 and a struct to encode block indices      *)
(* with; data with any other integer there is rejected, so no such object  *)
(* exists.                                                                  *)
C22_IndexSizeHasEncoder ==
    obj.cls = "ElGamalSafe" =>
        /\ obj.data.f["block-index-size"].n \in {1, 2, 4}
        /\ obj.struct \in {"B", "H", "I"}

(* C23: Safe.generate dispatches on TYPE_MAP as Safe.load does: for a      *)
(* registered type it returns an ElGamalSafe whose data has passed the     *)
(* checks of ElGamalSafe.__init__ (as many blocks as n-blocks, two group   *)
(* parameters), and rerandomize can be called on it; for any other type    *)
(* it raises ValueError and no object is created.                          *)
C23_GenerateDispatches ==
    /\ exc.op = "generate" =>
         \/ exc.e = "ValueError" /\ obj.cls = "None"
         \/ /\ exc.e = "none"
            /\ obj.cls = "ElGamalSafe"
            /\ ElGamalSafe_init(obj.data) = "none"
    /\ exc.op = "rerandomize" => exc.e = "none"

-----------------------------------------------------------------------------
(* The calls of a command that returned a safe and those that gave one     *)
(* back: the positions of open_safe in a command that got past it, and of  *)
(* __exit__.                                                               *)
OpenErrors ==
    {"SafeNotFoundError", "SafeLocked", "WrongMagicError", "SafeFormatError",
     "TypeError"}

Entered(r) ==
    {i \in 1..Len(r.calls) :
        r.calls[i] = "open_safe" /\ r.raised \notin OpenErrors}

Exited(r) == {i \in 1..Len(r.calls) : r.calls[i] = "safe.__exit__"}

(* C21: every command the shell runs gives the safe back before it         *)
(* returns, whether it returns success, an error code or raises: a command *)
(* opens the safe at most once, the safe it opened is closed after that    *)
(* and before the command ends, so the shell holds no lock between two     *)
(* commands, and a command only fails with SafeLocked when another         *)
(* process holds the lock.                                                 *)
C21_SafeReleased ==
    /\ file # "held"
    /\ Calls(res, "open_safe") <= 1
    /\ Cardinality(Exited(res)) = Cardinality(Entered(res))
    /\ \A i \in Entered(res) : \E j \in Exited(res) : i < j
    /\ res.raised = "SafeLocked" => file = "locked"

(* After a put of the same shell had stored an entry, a command opened the *)
(* safe again, was interrupted inside the with block and closed the safe.  *)
C21_Witness ==
    /\ res.raised = "KeyboardInterrupt"
    /\ res.ret = <<-14>>
    /\ res.calls = <<"open_safe", "getpass", "safe.__exit__">>
    /\ file = "safe"
    /\ \E i \in 1..Len(safe) : safe[i].main # <<>>

=============================================================================
